---- MODULE Spec2Model ----
(***************************************************************************)
(* PawScout backend: the JWT authentication core (app/auth.py,             *)
(* app/dependencies.py), the account handlers (app/routers/users.py), the  *)
(* admin handlers (app/internal/admin.py) and the admin-gated handlers of  *)
(* the other routers, as a state machine over the relational store.        *)
(*                                                                         *)
(* One action is one HTTP request served to completion (FastAPI resolves   *)
(* the dependencies, then runs the handler body, then commits).  Time is   *)
(* counted in minutes.  Request bodies that pydantic refuses (422) never   *)
(* reach a handler and are not drawn as inputs.                            *)
(*                                                                         *)
(* `last` is a probe.  Every request can be served unobserved (last stays  *)
(* Idle and the run goes on) or observed (last holds the request and its   *)
(* response, and the run ends there), so every request of every reachable  *)
(* state of the store is observed in some behaviour.                       *)
(***************************************************************************)
EXTENDS Integers, FiniteSets, Sequences, TLC

VARIABLES
    users,      \* table pawuser: id -> row, for the ids that have a row
    seq,        \* per table, the last value its id sequence handed out
    issued,     \* every token create_access_token has returned so far
    now,        \* the clock, in minutes
    ACCESS_TOKEN_EXPIRE_MINUTES,  \* configuration read at import time
    animals,    \* table animal: id -> row
    volunteers, \* table volunteer: id -> row
    settings,   \* table shelter_settings: sequence of at most one row
    media,      \* public_ids the image host currently stores
    applications, \* table adoptionapplication: id -> row
    process,    \* the server process: its environment and how far it started
    pending,    \* the request a second worker has checked but not committed
    last        \* the observed request and its response, or Idle

vars == <<users, seq, issued, now, ACCESS_TOKEN_EXPIRE_MINUTES,
          animals, volunteers, settings, media, applications, process,
          pending, last>>

stores == <<users, seq, animals, volunteers, settings, media, applications>>

(* what app/auth.py binds at import, and the process that holds it *)
config == <<ACCESS_TOKEN_EXPIRE_MINUTES, process>>

-----------------------------------------------------------------------------
(* Bounds of the model *)

MaxTime == 1
MaxTokens == 2

UserIds == {1, 2}
Emails == {"ana@paw.org", "bob@paw.org"}
Passwords == {"hunter22"}
(* passwords nobody registered with *)
WrongPasswords == {"letmein1"}
Blank == "        "
Names == {"Ana"}

(* Python's None, for strings and for integers *)
None == "None"
NoId == 0

(* the id sequences of empty tables *)
NoRows == [pawuser |-> 0, animal |-> 0, volunteer |-> 0, adoptionapplication |-> 0]

-----------------------------------------------------------------------------
(* Configuration: app/auth.py *)

SECRET_KEY == "server-secret"
ALGORITHM == "HS256"
DefaultExpireMinutes == 15
(* the value the deployment gives ACCESS_TOKEN_EXPIRE_MINUTES *)
Lifetime == 1

(* os.environ, restricted to the names app/auth.py reads: each is absent   *)
(* (None) or set; the lifetime may also be set to text that is no number   *)
ConfigNames == {"AUTH_SECRET_KEY", "ALGORITHM", "ACCESS_TOKEN_EXPIRE_MINUTES"}

Environments ==
    [AUTH_SECRET_KEY : {None, SECRET_KEY},
     ALGORITHM : {None, ALGORITHM},
     ACCESS_TOKEN_EXPIRE_MINUTES : {None, "0", "1", "soon"}]

Deployment ==
    [AUTH_SECRET_KEY |-> SECRET_KEY, ALGORITHM |-> ALGORITHM,
     ACCESS_TOKEN_EXPIRE_MINUTES |-> "1"]

os_getenv(name) == process.environ[name]

(* int(): defined on numerals; TypeError on None, ValueError on other text *)
IntLiterals == ("0" :> 0) @@ ("1" :> Lifetime)

(* the module-level name is not bound before app/auth.py has run *)
Unbound == 0 - 1

Importing(environ) ==
    [phase |-> "importing", environ |-> environ,
     secret_key |-> None, algorithm |-> None]

(* a process that came up with this environment and serves requests *)
Started(environ) ==
    [phase |-> "serving", environ |-> environ,
     secret_key |-> environ.AUTH_SECRET_KEY, algorithm |-> environ.ALGORITHM]


-----------------------------------------------------------------------------
(* Password hashing: pwdlib's PasswordHash.recommended() (argon2).  The     *)
(* hash is a tagged digest of the secret, never the secret itself; the     *)
(* random salt is not modelled.                                            *)

NoHash == [alg |-> None, of |-> None]

get_password_hash(password) == [alg |-> "argon2", of |-> password]

(* A verifier that accepts any password for an account that has a hash *)
verify_password_any(plain_password, hashed_password) ==
    hashed_password.alg = "argon2"

verify_password(plain_password, hashed_password) ==
    hashed_password.alg = "argon2" /\ hashed_password.of = plain_password

-----------------------------------------------------------------------------
(* Rows and user objects *)

NoUserObj == [id |-> NoId, email |-> None, name |-> None,
              password |-> NoHash, isAdmin |-> FALSE]

(* session.get(PawUser, id): the loaded object, or None *)
UserObj(id) ==
    IF id \in DOMAIN users
    THEN [id |-> id, email |-> users[id].email, name |-> users[id].name,
          password |-> users[id].password, isAdmin |-> users[id].isAdmin]
    ELSE NoUserObj

(* select(PawUser).where(PawUser.email == email).first() *)
UserByEmail(email) ==
    IF \E i \in DOMAIN users : users[i].email = email
    THEN UserObj(CHOOSE i \in DOMAIN users : users[i].email = email)
    ELSE NoUserObj

-----------------------------------------------------------------------------
(* Token service: jwt.encode / jwt.decode with an HMAC key.  A signature   *)
(* is the pair (key, signed payload): it verifies exactly when it was made *)
(* with the verifying key over the payload the token carries.              *)

NoPayload == [sub |-> None, user_id |-> NoId, isAdmin |-> FALSE,
              name |-> None, exp |-> 0]

Sign(payload, key) == [key |-> key, over |-> payload]

jwt_encode(payload, key) ==
    [form |-> "jws", payload |-> payload, sig |-> Sign(payload, key)]

(* a string that is no JWS at all *)
Garbage == [form |-> "garbage", payload |-> NoPayload,
            sig |-> Sign(NoPayload, None)]

(* timedelta | None *)
NoDelta == [given |-> FALSE, minutes |-> 0]
Delta(m) == [given |-> TRUE, minutes |-> m]

(* Python truth value of `expires_delta`: None and timedelta(0) are falsy *)
Truthy(expires_delta) == expires_delta.given /\ expires_delta.minutes # 0

create_access_token(data, expires_delta) ==
    LET expire == IF Truthy(expires_delta)
                  THEN now + expires_delta.minutes
                  ELSE now + DefaultExpireMinutes
    IN jwt_encode([data EXCEPT !.exp = expire], SECRET_KEY)

(* A decoder that compares exp < now: a token is still accepted in the     *)
(* minute of its exp.                                                      *)
jwt_decode_through_exp(token, key) ==
    IF token.form # "jws"
    THEN [ok |-> FALSE, err |-> "DecodeError", payload |-> NoPayload]
    ELSE IF token.sig # Sign(token.payload, key)
    THEN [ok |-> FALSE, err |-> "InvalidSignatureError", payload |-> NoPayload]
    ELSE IF token.payload.exp < now
    THEN [ok |-> FALSE, err |-> "ExpiredSignatureError", payload |-> NoPayload]
    ELSE [ok |-> TRUE, err |-> None, payload |-> token.payload]

(* A decoder that rejects a token one minute ahead of its exp. *)
jwt_decode_a_minute_early(token, key) ==
    IF token.form # "jws"
    THEN [ok |-> FALSE, err |-> "DecodeError", payload |-> NoPayload]
    ELSE IF token.sig # Sign(token.payload, key)
    THEN [ok |-> FALSE, err |-> "InvalidSignatureError", payload |-> NoPayload]
    ELSE IF token.payload.exp <= now + 1
    THEN [ok |-> FALSE, err |-> "ExpiredSignatureError", payload |-> NoPayload]
    ELSE [ok |-> TRUE, err |-> None, payload |-> token.payload]

(* jwt.decode(token, key, algorithms=[ALGORITHM]): the payload, or the     *)
(* InvalidTokenError subclass it raises.  The signature is checked before  *)
(* the registered claims; exp is rejected when exp <= now.                 *)
jwt_decode(token, key) ==
    IF token.form # "jws"
    THEN [ok |-> FALSE, err |-> "DecodeError", payload |-> NoPayload]
    ELSE IF token.sig # Sign(token.payload, key)
    THEN [ok |-> FALSE, err |-> "InvalidSignatureError", payload |-> NoPayload]
    ELSE IF token.payload.exp <= now
    THEN [ok |-> FALSE, err |-> "ExpiredSignatureError", payload |-> NoPayload]
    ELSE [ok |-> TRUE, err |-> None, payload |-> token.payload]

-----------------------------------------------------------------------------
(* Authorization headers *)

NoHeader == [scheme |-> None, token |-> Garbage]
Bearer(token) == [scheme |-> "Bearer", token |-> token]
Basic == [scheme |-> "Basic", token |-> Garbage]

(* what a client can put after "Bearer": a token it was given, such a      *)
(* token with its payload edited (admin flag set, expiry pushed back) and  *)
(* the signature kept, or a string that is no token                        *)
Tampered(token) ==
    [token EXCEPT !.payload.isAdmin = TRUE, !.payload.exp = @ + 1]

Headers ==
    {NoHeader, Basic, Bearer(Garbage)}
        \cup {Bearer(t) : t \in issued}
        \cup {Bearer(Tampered(t)) : t \in issued}

-----------------------------------------------------------------------------
(* Dependencies: app/dependencies.py.  A dependency result is the object   *)
(* handed to the handler, or the HTTPException raised.                     *)

Rejection(status, detail, challenge, cause, consulted) ==
    [ok |-> FALSE, status |-> status, detail |-> detail,
     challenge |-> challenge, cause |-> cause, consulted |-> consulted,
     user |-> NoUserObj]

Resolved(user) ==
    [ok |-> TRUE, status |-> 200, detail |-> None, challenge |-> None,
     cause |-> None, consulted |-> TRUE, user |-> user]

credentials_exception(cause, consulted) ==
    Rejection(401, "Could not validate credentials", "Bearer", cause, consulted)

(* A bearer scheme that answers a missing header with 403 and no challenge *)
oauth2_scheme_forbidden(header) ==
    IF header.scheme # "Bearer"
    THEN Rejection(403, "Not authenticated", None, "no_bearer", FALSE)
    ELSE Resolved(NoUserObj)

(* OAuth2PasswordBearer(tokenUrl=...): the token of a Bearer header, or 401 *)
oauth2_scheme(header) ==
    IF header.scheme # "Bearer"
    THEN Rejection(401, "Not authenticated", "Bearer", "no_bearer", FALSE)
    ELSE Resolved(NoUserObj)

(* A resolver that takes the admin flag of the user from the token claim *)
get_current_user_by_claim(token) ==
    LET decoded == jwt_decode(token, SECRET_KEY)
        email == decoded.payload.sub
        user_id == decoded.payload.user_id
    IN  IF ~decoded.ok
        THEN credentials_exception(decoded.err, FALSE)
        ELSE IF email = None \/ user_id = NoId
        THEN credentials_exception("missing_claims", FALSE)
        ELSE IF UserObj(user_id) = NoUserObj
        THEN credentials_exception("no_user", TRUE)
        ELSE Resolved([UserObj(user_id) EXCEPT !.isAdmin = decoded.payload.isAdmin])

(* A resolver that answers a token of a user without a row with 404 *)
get_current_user_not_found(token) ==
    LET decoded == jwt_decode(token, SECRET_KEY)
        email == decoded.payload.sub
        user_id == decoded.payload.user_id
    IN  IF ~decoded.ok
        THEN credentials_exception(decoded.err, FALSE)
        ELSE IF email = None \/ user_id = NoId
        THEN credentials_exception("missing_claims", FALSE)
        ELSE IF UserObj(user_id) = NoUserObj
        THEN Rejection(404, "User not found", None, "no_user", TRUE)
        ELSE Resolved(UserObj(user_id))

(* A resolver that queries the user table with the unverified user_id of   *)
(* the token before it verifies the token                                  *)
get_current_user_query_first(token) ==
    LET decoded == jwt_decode(token, SECRET_KEY)
        email == decoded.payload.sub
        user_id == decoded.payload.user_id
    IN  IF ~decoded.ok
        THEN credentials_exception(decoded.err, TRUE)
        ELSE IF email = None \/ user_id = NoId
        THEN credentials_exception("missing_claims", TRUE)
        ELSE IF UserObj(user_id) = NoUserObj
        THEN credentials_exception("no_user", TRUE)
        ELSE Resolved(UserObj(user_id))

get_current_user(token) ==
    LET decoded == jwt_decode(token, SECRET_KEY)
        email == decoded.payload.sub
        user_id == decoded.payload.user_id
    IN  IF ~decoded.ok
        THEN credentials_exception(decoded.err, FALSE)
        ELSE IF email = None \/ user_id = NoId
        THEN credentials_exception("missing_claims", FALSE)
        ELSE IF UserObj(user_id) = NoUserObj
        THEN credentials_exception("no_user", TRUE)
        ELSE Resolved(UserObj(user_id))

(* Depends(oauth2_scheme) then get_current_user *)
CurrentUser(header) ==
    IF ~oauth2_scheme(header).ok
    THEN oauth2_scheme(header)
    ELSE get_current_user(header.token)

(* A gate that hands on a copy of the user without the password hash *)
get_current_admin_user_redacted(current_user) ==
    IF ~current_user.isAdmin
    THEN Rejection(403,
            "You do not have permission to access this resource. Admin privileges required.",
            None, "not_admin", TRUE)
    ELSE Resolved([current_user EXCEPT !.password = NoHash])

get_current_admin_user(current_user) ==
    IF ~current_user.isAdmin
    THEN Rejection(403,
            "You do not have permission to access this resource. Admin privileges required.",
            None, "not_admin", TRUE)
    ELSE Resolved(current_user)

(* Depends(get_current_user) then get_current_admin_user *)
AdminUser(header) ==
    IF ~CurrentUser(header).ok
    THEN CurrentUser(header)
    ELSE get_current_admin_user(CurrentUser(header).user)

-----------------------------------------------------------------------------
(* The record of the observed request: the Authorization header it      *)
(* carried, the response (status, detail, WWW-Authenticate challenge; for  *)
(* login the access_token and the user projection), the object the         *)
(* dependencies handed to the handler, and what the server could log: the  *)
(* cause of a refusal, whether the user table was queried, and the call   *)
(* of create_access_token the request made.                                *)

(* the arguments and the time of a call of create_access_token *)
Call(data, expires_delta) ==
    [data |-> data, expires_delta |-> expires_delta, at |-> now]

NoCall == [data |-> NoPayload, expires_delta |-> NoDelta, at |-> 0]

(* the JSON body of a request to the account routes (PawUser, LoginRequest) *)
Body(id, email, name, password, isAdmin) ==
    [id |-> id, email |-> email, name |-> name, password |-> password,
     isAdmin |-> isAdmin]

NoBody == Body(NoId, None, None, None, FALSE)

(* nothing is in flight on the second worker *)
NoRequest == [op |-> "none", header |-> NoHeader, target |-> NoId, body |-> NoBody]

Served(op, header, dep, status, detail) ==
    [op |-> op, header |-> header, status |-> status, detail |-> detail,
     challenge |-> dep.challenge, cause |-> dep.cause,
     consulted |-> dep.consulted, user |-> dep.user, token |-> Garbage,
     call |-> NoCall, body |-> NoBody, target |-> NoId]

Idle == [op |-> "idle", header |-> NoHeader, status |-> 0, detail |-> None,
         challenge |-> None, cause |-> None, consulted |-> FALSE,
         user |-> NoUserObj, token |-> Garbage, call |-> NoCall,
         body |-> NoBody, target |-> NoId]

(* the process is up and the observed request has not been served yet *)
Running == last = Idle /\ process.phase = "serving"

Observe(record) == {Idle, record}

(* a request refused by a dependency: the HTTPException is the response *)
Refused(op, header, dep) == Served(op, header, dep, dep.status, dep.detail)

(* the response to a request whose path names a row *)
On(target, record) == [record EXCEPT !.target = target]

(* a request to a route without dependencies *)
Public == Resolved(NoUserObj)

-----------------------------------------------------------------------------
(* app/routers/users.py *)

Registered(email, name, password, id, isAdmin, status, detail) ==
    [Served("register", NoHeader, Public, status, detail)
        EXCEPT !.body = Body(id, email, name, password, isAdmin)]

register_user(email, name, password, id, isAdmin) ==
    /\ Running
    /\ UNCHANGED <<issued, now, config, applications, pending,
                   animals, volunteers, settings, media>>
    /\ IF UserByEmail(email) # NoUserObj
       THEN /\ last' \in Observe(Registered(email, name, password, id, isAdmin, 409, "Email already registered"))
            /\ UNCHANGED <<users, seq>>
       ELSE IF name = Blank \/ password = Blank
       THEN /\ last' \in Observe(Registered(email, name, password, id, isAdmin, 400,
                        IF name = Blank THEN "name cannot be empty"
                        ELSE "password cannot be empty"))
            /\ UNCHANGED <<users, seq>>
       ELSE LET row == [email |-> email, name |-> name,
                        password |-> get_password_hash(password),
                        isAdmin |-> isAdmin]
                new_id == IF id = NoId THEN seq.pawuser + 1 ELSE id
            IN  /\ new_id \in UserIds
                /\ seq' = IF id = NoId THEN [seq EXCEPT !.pawuser = @ + 1] ELSE seq
                /\ IF new_id \in DOMAIN users
                   THEN /\ last' \in Observe(Registered(email, name, password, id, isAdmin, 500, "Internal Server Error"))
                        /\ UNCHANGED users
                   ELSE /\ last' \in Observe(Registered(email, name, password, id, isAdmin, 201, "User registered successfully"))
                        /\ users' = users @@ (new_id :> row)

(* the token goes to the caller *)
Issue(access_token) ==
    /\ Cardinality(issued \cup {access_token}) <= MaxTokens
    /\ issued' = issued \cup {access_token}

LoggedIn(email, password, status, detail) ==
    [Served("login", NoHeader, Public, status, detail)
        EXCEPT !.body = Body(NoId, email, None, password, FALSE)]

(* A login that tells an unknown email from a wrong password *)
login_user_not_found(email, password) ==
    /\ Running
    /\ UNCHANGED <<users, seq, now, config, applications, pending,
                   animals, volunteers, settings, media>>
    /\ IF password = Blank
       THEN /\ last' \in Observe(LoggedIn(email, password, 400, "Email and password cannot be empty"))
            /\ UNCHANGED issued
       ELSE LET db_user == UserByEmail(email)
            IN  IF db_user = NoUserObj
                THEN /\ last' \in Observe(LoggedIn(email, password, 404, "User not found"))
                     /\ UNCHANGED issued
                ELSE IF ~verify_password(password, db_user.password)
                THEN /\ last' \in Observe(LoggedIn(email, password, 401, "Invalid email or password"))
                     /\ UNCHANGED issued
                ELSE LET access_token_expires == Delta(ACCESS_TOKEN_EXPIRE_MINUTES)
                         data == [sub |-> db_user.email, user_id |-> db_user.id,
                                  isAdmin |-> db_user.isAdmin,
                                  name |-> db_user.name, exp |-> 0]
                         access_token == create_access_token(data, access_token_expires)
                         projection == [db_user EXCEPT !.password = NoHash]
                     IN  /\ Issue(access_token)
                         /\ last' \in Observe(
                                [LoggedIn(email, password, 200, None)
                                    EXCEPT !.token = access_token,
                                           !.user = projection,
                                           !.call = Call(data, access_token_expires)])

login_user(email, password) ==
    /\ Running
    /\ UNCHANGED <<users, seq, now, config, applications, pending,
                   animals, volunteers, settings, media>>
    /\ IF password = Blank
       THEN /\ last' \in Observe(LoggedIn(email, password, 400, "Email and password cannot be empty"))
            /\ UNCHANGED issued
       ELSE LET db_user == UserByEmail(email)
            IN  IF db_user = NoUserObj \/ ~verify_password(password, db_user.password)
                THEN /\ last' \in Observe(LoggedIn(email, password, 401, "Invalid email or password"))
                     /\ UNCHANGED issued
                ELSE LET access_token_expires == Delta(ACCESS_TOKEN_EXPIRE_MINUTES)
                         data == [sub |-> db_user.email, user_id |-> db_user.id,
                                  isAdmin |-> db_user.isAdmin,
                                  name |-> db_user.name, exp |-> 0]
                         access_token == create_access_token(data, access_token_expires)
                         projection == [db_user EXCEPT !.password = NoHash]
                     IN  /\ Issue(access_token)
                         /\ last' \in Observe(
                                [LoggedIn(email, password, 200, None)
                                    EXCEPT !.token = access_token,
                                           !.user = projection,
                                           !.call = Call(data, access_token_expires)])

get_current_user_info(header) ==
    /\ Running
    /\ UNCHANGED <<users, seq, issued, now, config, applications, pending,
                   animals, volunteers, settings, media>>
    /\ LET current_user == CurrentUser(header)
       IN  IF ~current_user.ok
           THEN last' \in Observe(Refused("me", header, current_user))
           ELSE last' \in Observe(Served("me", header, current_user, 200, None))

-----------------------------------------------------------------------------
(* app/internal/admin.py *)

get_admin_dashboard(header) ==
    /\ Running
    /\ UNCHANGED <<users, seq, issued, now, config, applications, pending,
                   animals, volunteers, settings, media>>
    /\ LET admin == AdminUser(header)
       IN  IF ~admin.ok
           THEN last' \in Observe(Refused("dashboard", header, admin))
           ELSE last' \in Observe(Served("dashboard", header, admin, 200, None))

(* A promotion that does not look at the flag the user already has *)
promote_user_to_admin_again(header, user_id) ==
    /\ Running
    /\ UNCHANGED <<seq, issued, now, config, applications, pending,
                   animals, volunteers, settings, media>>
    /\ LET admin == AdminUser(header)
           user == UserObj(user_id)
       IN  IF ~admin.ok
           THEN /\ last' \in Observe(On(user_id, Refused("promote", header, admin)))
                /\ UNCHANGED users
           ELSE IF user = NoUserObj
           THEN /\ last' \in Observe(On(user_id, Served("promote", header, admin, 404, "User not found")))
                /\ UNCHANGED users
           ELSE /\ users' = [users EXCEPT ![user_id].isAdmin = TRUE]
                /\ last' \in Observe(On(user_id, Served("promote", header, admin, 200, None)))

promote_user_to_admin(header, user_id) ==
    /\ Running
    /\ UNCHANGED <<seq, issued, now, config, applications, pending,
                   animals, volunteers, settings, media>>
    /\ LET admin == AdminUser(header)
           user == UserObj(user_id)
       IN  IF ~admin.ok
           THEN /\ last' \in Observe(On(user_id, Refused("promote", header, admin)))
                /\ UNCHANGED users
           ELSE IF user = NoUserObj
           THEN /\ last' \in Observe(On(user_id, Served("promote", header, admin, 404, "User not found")))
                /\ UNCHANGED users
           ELSE IF user.isAdmin
           THEN /\ last' \in Observe(On(user_id, Served("promote", header, admin, 400, "User is already an admin")))
                /\ UNCHANGED users
           ELSE /\ users' = [users EXCEPT ![user_id].isAdmin = TRUE]
                /\ last' \in Observe(On(user_id, Served("promote", header, admin, 200, None)))

(* A demotion without the check against the caller *)
demote_admin_to_user_any(header, user_id) ==
    /\ Running
    /\ UNCHANGED <<seq, issued, now, config, applications, pending,
                   animals, volunteers, settings, media>>
    /\ LET admin == AdminUser(header)
           user == UserObj(user_id)
       IN  IF ~admin.ok
           THEN /\ last' \in Observe(On(user_id, Refused("demote", header, admin)))
                /\ UNCHANGED users
           ELSE IF user = NoUserObj
           THEN /\ last' \in Observe(On(user_id, Served("demote", header, admin, 404, "User not found")))
                /\ UNCHANGED users
           ELSE IF ~user.isAdmin
           THEN /\ last' \in Observe(On(user_id, Served("demote", header, admin, 400, "User is not an admin")))
                /\ UNCHANGED users
           ELSE /\ users' = [users EXCEPT ![user_id].isAdmin = FALSE]
                /\ last' \in Observe(On(user_id, Served("demote", header, admin, 200, None)))

demote_admin_to_user(header, user_id) ==
    /\ Running
    /\ UNCHANGED <<seq, issued, now, config, applications, pending,
                   animals, volunteers, settings, media>>
    /\ LET admin == AdminUser(header)
           user == UserObj(user_id)
       IN  IF ~admin.ok
           THEN /\ last' \in Observe(On(user_id, Refused("demote", header, admin)))
                /\ UNCHANGED users
           ELSE IF user = NoUserObj
           THEN /\ last' \in Observe(On(user_id, Served("demote", header, admin, 404, "User not found")))
                /\ UNCHANGED users
           ELSE IF ~user.isAdmin
           THEN /\ last' \in Observe(On(user_id, Served("demote", header, admin, 400, "User is not an admin")))
                /\ UNCHANGED users
           ELSE IF user.id = admin.user.id
           THEN /\ last' \in Observe(On(user_id, Served("demote", header, admin, 400, "Cannot demote yourself")))
                /\ UNCHANGED users
           ELSE /\ users' = [users EXCEPT ![user_id].isAdmin = FALSE]
                /\ last' \in Observe(On(user_id, Served("demote", header, admin, 200, None)))

(* A deletion without the check against the caller *)
delete_user_any(header, user_id) ==
    /\ Running
    /\ UNCHANGED <<seq, issued, now, config, applications, pending,
                   animals, volunteers, settings, media>>
    /\ LET admin == AdminUser(header)
           user == UserObj(user_id)
       IN  IF ~admin.ok
           THEN /\ last' \in Observe(On(user_id, Refused("delete_user", header, admin)))
                /\ UNCHANGED users
           ELSE IF user = NoUserObj
           THEN /\ last' \in Observe(On(user_id, Served("delete_user", header, admin, 404, "User not found")))
                /\ UNCHANGED users
           ELSE /\ users' = [i \in DOMAIN users \ {user_id} |-> users[i]]
                /\ last' \in Observe(On(user_id, Served("delete_user", header, admin, 200, None)))

delete_user(header, user_id) ==
    /\ Running
    /\ UNCHANGED <<seq, issued, now, config, applications, pending,
                   animals, volunteers, settings, media>>
    /\ LET admin == AdminUser(header)
           user == UserObj(user_id)
       IN  IF ~admin.ok
           THEN /\ last' \in Observe(On(user_id, Refused("delete_user", header, admin)))
                /\ UNCHANGED users
           ELSE IF user = NoUserObj
           THEN /\ last' \in Observe(On(user_id, Served("delete_user", header, admin, 404, "User not found")))
                /\ UNCHANGED users
           ELSE IF user.id = admin.user.id
           THEN /\ last' \in Observe(On(user_id, Served("delete_user", header, admin, 400, "Cannot delete yourself")))
                /\ UNCHANGED users
           ELSE /\ users' = [i \in DOMAIN users \ {user_id} |-> users[i]]
                /\ last' \in Observe(On(user_id, Served("delete_user", header, admin, 200, None)))

-----------------------------------------------------------------------------
(* The clock *)

Tick ==
    /\ Running
    /\ now < MaxTime
    /\ now' = now + 1
    /\ UNCHANGED <<users, seq, issued, config, applications, pending,
                   animals, volunteers, settings, media, last>>

-----------------------------------------------------------------------------

Init ==
    /\ users = <<>>
    /\ seq = NoRows
    /\ issued = {}
    /\ now = 0
    /\ ACCESS_TOKEN_EXPIRE_MINUTES = Lifetime
    /\ process = Started(Deployment)
    /\ pending = NoRequest
    /\ applications = <<>>
    /\ animals = <<>>
    /\ volunteers = <<>>
    /\ settings = <<>>
    /\ media = {}
    /\ last = Idle

Next ==
    \/ \E e \in Emails, n \in Names \cup {Blank}, p \in Passwords \cup {Blank},
          i \in UserIds \cup {NoId}, a \in BOOLEAN :
            register_user(e, n, p, i, a)
    \/ \E e \in Emails, p \in Passwords \cup WrongPasswords \cup {Blank} :
            login_user(e, p)
    \/ \E h \in Headers : get_current_user_info(h)
    \/ \E h \in Headers : get_admin_dashboard(h)
    \/ \E h \in Headers, u \in UserIds : promote_user_to_admin(h, u)
    \/ \E h \in Headers, u \in UserIds : demote_admin_to_user(h, u)
    \/ \E h \in Headers, u \in UserIds : delete_user(h, u)
    \/ Tick

Spec == Init /\ [][Next]_vars

-----------------------------------------------------------------------------
(* Process start: uvicorn imports app.main, which imports the routers and  *)
(* through them app/auth.py; then the startup event runs.                  *)

import_auth ==
    /\ process.phase = "importing"
    /\ IF os_getenv("ACCESS_TOKEN_EXPIRE_MINUTES") \notin DOMAIN IntLiterals
       THEN /\ process' = [process EXCEPT !.phase = "crashed"]
            /\ UNCHANGED ACCESS_TOKEN_EXPIRE_MINUTES
       ELSE /\ process' = [process EXCEPT
                                !.phase = "imported",
                                !.secret_key = os_getenv("AUTH_SECRET_KEY"),
                                !.algorithm = os_getenv("ALGORITHM")]
            /\ ACCESS_TOKEN_EXPIRE_MINUTES' =
                    IntLiterals[os_getenv("ACCESS_TOKEN_EXPIRE_MINUTES")]
    /\ UNCHANGED <<users, seq, issued, now, animals, volunteers, settings,
                   media, applications, pending, last>>

on_startup ==
    /\ process.phase = "imported"
    /\ process' = [process EXCEPT !.phase = "serving"]
    /\ UNCHANGED <<users, seq, issued, now, ACCESS_TOKEN_EXPIRE_MINUTES,
                   animals, volunteers, settings, media, applications,
                   pending, last>>

(* GET /users/{user_id}: a route without dependencies *)
get_user(user_id) ==
    /\ Running
    /\ UNCHANGED <<users, seq, issued, now, config, applications, pending,
                   animals, volunteers, settings, media>>
    /\ IF user_id \notin DOMAIN users
       THEN last' \in Observe(Served("get_user", NoHeader, Public, 404, "User not found"))
       ELSE last' \in Observe(
                [Served("get_user", NoHeader, Public, 200, None)
                    EXCEPT !.user = UserObj(user_id)])

InitStart ==
    /\ users = <<>>
    /\ seq = NoRows
    /\ issued = {}
    /\ now = 0
    /\ ACCESS_TOKEN_EXPIRE_MINUTES = Unbound
    /\ process \in {Importing(environ) : environ \in Environments}
    /\ pending = NoRequest
    /\ applications = <<>>
    /\ animals = <<>>
    /\ volunteers = <<>>
    /\ settings = <<>>
    /\ media = {}
    /\ last = Idle

NextStart ==
    \/ import_auth
    \/ on_startup
    \/ \E e \in Emails, n \in Names \cup {Blank}, p \in Passwords \cup {Blank},
          i \in UserIds \cup {NoId}, a \in BOOLEAN :
            register_user(e, n, p, i, a)
    \/ \E u \in UserIds : get_user(u)

SpecStart == InitStart /\ [][NextStart]_vars

-----------------------------------------------------------------------------
(* Two workers on one database.  A handler body has no await, so within    *)
(* one worker requests run one after the other; a second worker process    *)
(* runs its handler between any two statements of the database session.    *)
(* The first worker's requests are the actions above; the second worker's  *)
(* request is split where its session reads and where it commits.          *)

(* register_user up to the validation loop: the SELECT by email has run *)
register_user_check(email, name, password, id, isAdmin) ==
    /\ Running
    /\ pending = NoRequest
    /\ UNCHANGED <<users, seq, issued, now, config, applications,
                   animals, volunteers, settings, media>>
    /\ IF UserByEmail(email) # NoUserObj
       THEN /\ last' \in Observe(Registered(email, name, password, id, isAdmin,
                        409, "Email already registered"))
            /\ UNCHANGED pending
       ELSE IF name = Blank \/ password = Blank
       THEN /\ last' \in Observe(Registered(email, name, password, id, isAdmin, 400,
                        IF name = Blank THEN "name cannot be empty"
                        ELSE "password cannot be empty"))
            /\ UNCHANGED pending
       ELSE /\ pending' = [NoRequest EXCEPT
                                !.op = "register",
                                !.body = Body(id, email, name, password, isAdmin)]
            /\ UNCHANGED last

(* An INSERT into a table without the unique index on email *)
register_user_commit_unindexed ==
    /\ Running
    /\ pending.op = "register"
    /\ pending' = NoRequest
    /\ UNCHANGED <<issued, now, config, applications,
                   animals, volunteers, settings, media>>
    /\ LET b == pending.body
           row == [email |-> b.email, name |-> b.name,
                   password |-> get_password_hash(b.password),
                   isAdmin |-> b.isAdmin]
           new_id == IF b.id = NoId THEN seq.pawuser + 1 ELSE b.id
       IN  /\ new_id \in UserIds
           /\ seq' = IF b.id = NoId THEN [seq EXCEPT !.pawuser = @ + 1] ELSE seq
           /\ IF new_id \in DOMAIN users
              THEN /\ last' \in Observe(Registered(b.email, b.name, b.password, b.id,
                            b.isAdmin, 500, "Internal Server Error"))
                   /\ UNCHANGED users
              ELSE /\ last' \in Observe(Registered(b.email, b.name, b.password, b.id,
                            b.isAdmin, 201, "User registered successfully"))
                   /\ users' = users @@ (new_id :> row)

(* session.add, session.commit: the INSERT, checked by the primary key and *)
(* by the unique index on pawuser.email; IntegrityError is not caught      *)
register_user_commit ==
    /\ Running
    /\ pending.op = "register"
    /\ pending' = NoRequest
    /\ UNCHANGED <<issued, now, config, applications,
                   animals, volunteers, settings, media>>
    /\ LET b == pending.body
           row == [email |-> b.email, name |-> b.name,
                   password |-> get_password_hash(b.password),
                   isAdmin |-> b.isAdmin]
           new_id == IF b.id = NoId THEN seq.pawuser + 1 ELSE b.id
       IN  /\ new_id \in UserIds
           /\ seq' = IF b.id = NoId THEN [seq EXCEPT !.pawuser = @ + 1] ELSE seq
           /\ IF new_id \in DOMAIN users \/ UserByEmail(b.email) # NoUserObj
              THEN /\ last' \in Observe(Registered(b.email, b.name, b.password, b.id,
                            b.isAdmin, 500, "Internal Server Error"))
                   /\ UNCHANGED users
              ELSE /\ last' \in Observe(Registered(b.email, b.name, b.password, b.id,
                            b.isAdmin, 201, "User registered successfully"))
                   /\ users' = users @@ (new_id :> row)

NextRegisterRace ==
    \/ \E e \in Emails, n \in Names \cup {Blank}, p \in Passwords \cup {Blank},
          i \in UserIds \cup {NoId}, a \in BOOLEAN :
            \/ register_user(e, n, p, i, a)
            \/ register_user_check(e, n, p, i, a)
    \/ register_user_commit
    \/ \E u \in UserIds : get_user(u)

SpecRegisterRace == Init /\ [][NextRegisterRace]_vars

-----------------------------------------------------------------------------
(* Direct calls of the token service, for the claims about it as a         *)
(* function: any claim set, any expires_delta, any time.                   *)

TokenData ==
    {[sub |-> c[1], user_id |-> c[2], isAdmin |-> FALSE, name |-> "Ana", exp |-> 0] :
        c \in {<<"ana@paw.org", 1>>, <<None, 1>>, <<"ana@paw.org", NoId>>}}

Deltas == {NoDelta, Delta(0 - 1), Delta(0), Delta(1)}

call_create_access_token(data, expires_delta) ==
    /\ Running
    /\ Issue(create_access_token(data, expires_delta))
    /\ last' \in Observe(
            [Served("create_access_token", NoHeader, Public, 200, None)
                EXCEPT !.token = create_access_token(data, expires_delta),
                       !.call = Call(data, expires_delta)])
    /\ UNCHANGED <<users, seq, now, config, applications, pending,
                   animals, volunteers, settings, media>>

SeededUsers ==
    1 :> [email |-> "ana@paw.org", name |-> "Ana",
          password |-> get_password_hash("hunter22"), isAdmin |-> FALSE]

InitToken ==
    /\ users \in {<<>>, SeededUsers}
    /\ seq = [NoRows EXCEPT !.pawuser = Cardinality(DOMAIN users)]
    /\ issued = {}
    /\ now = 0
    /\ \E minutes \in DOMAIN IntLiterals :
            /\ ACCESS_TOKEN_EXPIRE_MINUTES = IntLiterals[minutes]
            /\ process = Started([Deployment EXCEPT
                                    !.ACCESS_TOKEN_EXPIRE_MINUTES = minutes])
    /\ pending = NoRequest
    /\ applications = <<>>
    /\ animals = <<>>
    /\ volunteers = <<>>
    /\ settings = <<>>
    /\ media = {}
    /\ last = Idle

NextToken ==
    \/ \E d \in TokenData, x \in Deltas : call_create_access_token(d, x)
    \/ \E e \in Emails, p \in Passwords \cup WrongPasswords \cup {Blank} :
            login_user(e, p)
    \/ \E h \in Headers : get_current_user_info(h)
    \/ Tick

SpecToken == InitToken /\ [][NextToken]_vars

-----------------------------------------------------------------------------
(* The other tables and the image host, with the fields the handlers       *)
(* decide on.  A field left out (type, breed, lastName, ...) is validated  *)
(* and stored exactly like `name`.                                         *)

AnimalIds == {1}
VolunteerIds == {1}
MediaIds == {"pawscout/m1"}
AnimalStatus == {"available", "pending", "adopted"}
DefaultShelterName == "PawScout Shelter"
Unset == "Unset"

AnimalBodies ==
    [id : AnimalIds \cup {NoId}, name : {"Rex", Blank},
     availableForAdoption : AnimalStatus]

VolunteerBodies ==
    [id : VolunteerIds \cup {NoId}, name : {"Vic", Blank},
     email : {"vic@paw.org"}, phone : {"5550100"},
     privacyAgreement : BOOLEAN]

ContentTypes == {"image/png", "text/plain"}

(* cloudinary.uploader.destroy, wrapped by delete_media: the host without  *)
(* the file, and whether the host knew it                                  *)
Destroyed(public_id) == media \ {public_id}

-----------------------------------------------------------------------------
(* app/routers/animals.py *)

(* A handler that inserts the row first and checks the caller afterwards *)
create_animal_insert_first(header, animal) ==
    /\ Running
    /\ UNCHANGED <<users, issued, now, config, applications, pending,
                   volunteers, settings, media>>
    /\ LET admin == AdminUser(header)
           new_id == IF animal.id = NoId THEN seq.animal + 1 ELSE animal.id
       IN  IF animal.name = Blank
           THEN /\ last' \in Observe(Served("create_animal", header, admin, 400, "name cannot be empty"))
                /\ UNCHANGED <<animals, seq>>
           ELSE /\ new_id \in AnimalIds
                /\ seq' = IF animal.id = NoId THEN [seq EXCEPT !.animal = @ + 1] ELSE seq
                /\ IF new_id \in DOMAIN animals
                   THEN /\ last' \in Observe(Served("create_animal", header, admin, 500, "Internal Server Error"))
                        /\ UNCHANGED animals
                   ELSE /\ last' \in Observe(IF admin.ok
                                THEN Served("create_animal", header, admin, 201, None)
                                ELSE Refused("create_animal", header, admin))
                        /\ animals' = animals @@
                                (new_id :> [name |-> animal.name,
                                            availableForAdoption |-> animal.availableForAdoption])

create_animal(header, animal) ==
    /\ Running
    /\ UNCHANGED <<users, issued, now, config, applications, pending,
                   volunteers, settings, media>>
    /\ LET admin == AdminUser(header)
           new_id == IF animal.id = NoId THEN seq.animal + 1 ELSE animal.id
       IN  IF ~admin.ok
           THEN /\ last' \in Observe(Refused("create_animal", header, admin))
                /\ UNCHANGED <<animals, seq>>
           ELSE IF animal.name = Blank
           THEN /\ last' \in Observe(Served("create_animal", header, admin, 400, "name cannot be empty"))
                /\ UNCHANGED <<animals, seq>>
           ELSE /\ new_id \in AnimalIds
                /\ seq' = IF animal.id = NoId THEN [seq EXCEPT !.animal = @ + 1] ELSE seq
                /\ IF new_id \in DOMAIN animals
                   THEN /\ last' \in Observe(Served("create_animal", header, admin, 500, "Internal Server Error"))
                        /\ UNCHANGED animals
                   ELSE /\ last' \in Observe(Served("create_animal", header, admin, 201, None))
                        /\ animals' = animals @@
                                (new_id :> [name |-> animal.name,
                                            availableForAdoption |-> animal.availableForAdoption])

(* An update that any signed-in caller may make *)
update_animal_by_any_user(header, animal_id, updated_animal) ==
    /\ Running
    /\ UNCHANGED <<users, seq, issued, now, config, applications, pending,
                   volunteers, settings, media>>
    /\ LET admin == CurrentUser(header)
       IN  IF ~admin.ok
           THEN /\ last' \in Observe(Refused("update_animal", header, admin))
                /\ UNCHANGED animals
           ELSE IF animal_id \notin DOMAIN animals
           THEN /\ last' \in Observe(Served("update_animal", header, admin, 404, "Animal not found"))
                /\ UNCHANGED animals
           ELSE IF updated_animal.name = Blank
           THEN /\ last' \in Observe(Served("update_animal", header, admin, 400, "name cannot be empty"))
                /\ UNCHANGED animals
           ELSE /\ animals' = [animals EXCEPT ![animal_id] =
                                [name |-> updated_animal.name,
                                 availableForAdoption |-> updated_animal.availableForAdoption]]
                /\ last' \in Observe(Served("update_animal", header, admin, 200, None))

update_animal(header, animal_id, updated_animal) ==
    /\ Running
    /\ UNCHANGED <<users, seq, issued, now, config, applications, pending,
                   volunteers, settings, media>>
    /\ LET admin == AdminUser(header)
       IN  IF ~admin.ok
           THEN /\ last' \in Observe(Refused("update_animal", header, admin))
                /\ UNCHANGED animals
           ELSE IF animal_id \notin DOMAIN animals
           THEN /\ last' \in Observe(Served("update_animal", header, admin, 404, "Animal not found"))
                /\ UNCHANGED animals
           ELSE IF updated_animal.name = Blank
           THEN /\ last' \in Observe(Served("update_animal", header, admin, 400, "name cannot be empty"))
                /\ UNCHANGED animals
           ELSE /\ animals' = [animals EXCEPT ![animal_id] =
                                [name |-> updated_animal.name,
                                 availableForAdoption |-> updated_animal.availableForAdoption]]
                /\ last' \in Observe(Served("update_animal", header, admin, 200, None))

delete_animal(header, animal_id) ==
    /\ Running
    /\ UNCHANGED <<users, seq, issued, now, config, applications, pending,
                   volunteers, settings, media>>
    /\ LET admin == AdminUser(header)
       IN  IF ~admin.ok
           THEN /\ last' \in Observe(Refused("delete_animal", header, admin))
                /\ UNCHANGED animals
           ELSE IF animal_id \notin DOMAIN animals
           THEN /\ last' \in Observe(Served("delete_animal", header, admin, 404, "Animal not found"))
                /\ UNCHANGED animals
           ELSE /\ animals' = [i \in DOMAIN animals \ {animal_id} |-> animals[i]]
                /\ last' \in Observe(Served("delete_animal", header, admin, 200, None))

-----------------------------------------------------------------------------
(* app/routers/volunteer.py *)

existing_volunteer_email(email) ==
    \E i \in DOMAIN volunteers : volunteers[i].email = email

existing_voluneer_phone(phone) ==
    \E i \in DOMAIN volunteers : volunteers[i].phone = phone

VolunteerRow(volunteer) ==
    [name |-> volunteer.name, email |-> volunteer.email,
     phone |-> volunteer.phone, privacyAgreement |-> volunteer.privacyAgreement]

create_volunteer(volunteer) ==
    /\ Running
    /\ UNCHANGED <<users, issued, now, config, applications, pending,
                   animals, settings, media>>
    /\ LET new_id == IF volunteer.id = NoId THEN seq.volunteer + 1 ELSE volunteer.id
       IN  IF existing_volunteer_email(volunteer.email)
           THEN /\ last' \in Observe(Served("create_volunteer", NoHeader, Public, 409, "Email already registered"))
                /\ UNCHANGED <<volunteers, seq>>
           ELSE IF existing_voluneer_phone(volunteer.phone)
           THEN /\ last' \in Observe(Served("create_volunteer", NoHeader, Public, 409, "Phone number already registered"))
                /\ UNCHANGED <<volunteers, seq>>
           ELSE IF volunteer.name = Blank
           THEN /\ last' \in Observe(Served("create_volunteer", NoHeader, Public, 400, "name cannot be empty"))
                /\ UNCHANGED <<volunteers, seq>>
           ELSE IF ~volunteer.privacyAgreement
           THEN /\ last' \in Observe(Served("create_volunteer", NoHeader, Public, 400, "You must agree to the privacy policy"))
                /\ UNCHANGED <<volunteers, seq>>
           ELSE /\ new_id \in VolunteerIds
                /\ seq' = IF volunteer.id = NoId THEN [seq EXCEPT !.volunteer = @ + 1] ELSE seq
                /\ IF new_id \in DOMAIN volunteers
                   THEN /\ last' \in Observe(Served("create_volunteer", NoHeader, Public, 500, "Internal Server Error"))
                        /\ UNCHANGED volunteers
                   ELSE /\ last' \in Observe(Served("create_volunteer", NoHeader, Public, 201, None))
                        /\ volunteers' = volunteers @@ (new_id :> VolunteerRow(volunteer))

update_volunteer(header, volunteer_id, updated_volunteer) ==
    /\ Running
    /\ UNCHANGED <<users, seq, issued, now, config, applications, pending,
                   animals, settings, media>>
    /\ LET admin == AdminUser(header)
       IN  IF ~admin.ok
           THEN /\ last' \in Observe(Refused("update_volunteer", header, admin))
                /\ UNCHANGED volunteers
           ELSE IF volunteer_id \notin DOMAIN volunteers
           THEN /\ last' \in Observe(Served("update_volunteer", header, admin, 404, "Volunteer not found"))
                /\ UNCHANGED volunteers
           ELSE IF /\ volunteers[volunteer_id].email # updated_volunteer.email
                   /\ existing_volunteer_email(updated_volunteer.email)
           THEN /\ last' \in Observe(Served("update_volunteer", header, admin, 409, "Email already registered"))
                /\ UNCHANGED volunteers
           ELSE IF /\ volunteers[volunteer_id].phone # updated_volunteer.phone
                   /\ existing_voluneer_phone(updated_volunteer.phone)
           THEN /\ last' \in Observe(Served("update_volunteer", header, admin, 409, "Phone number already registered"))
                /\ UNCHANGED volunteers
           ELSE IF updated_volunteer.name = Blank
           THEN /\ last' \in Observe(Served("update_volunteer", header, admin, 400, "name cannot be empty"))
                /\ UNCHANGED volunteers
           ELSE IF volunteers[volunteer_id] = VolunteerRow(updated_volunteer)
           THEN /\ last' \in Observe(Served("update_volunteer", header, admin, 200, "No changes detected"))
                /\ UNCHANGED volunteers
           ELSE /\ volunteers' = [volunteers EXCEPT ![volunteer_id] = VolunteerRow(updated_volunteer)]
                /\ last' \in Observe(Served("update_volunteer", header, admin, 200, None))

delete_volunteer(header, volunteer_id) ==
    /\ Running
    /\ UNCHANGED <<users, seq, issued, now, config, applications, pending,
                   animals, settings, media>>
    /\ LET admin == AdminUser(header)
       IN  IF ~admin.ok
           THEN /\ last' \in Observe(Refused("delete_volunteer", header, admin))
                /\ UNCHANGED volunteers
           ELSE IF volunteer_id \notin DOMAIN volunteers
           THEN /\ last' \in Observe(Served("delete_volunteer", header, admin, 404, "Volunteer not found"))
                /\ UNCHANGED volunteers
           ELSE /\ volunteers' = [i \in DOMAIN volunteers \ {volunteer_id} |-> volunteers[i]]
                /\ last' \in Observe(Served("delete_volunteer", header, admin, 200, None))

-----------------------------------------------------------------------------
(* app/cloudinary/routers/media.py, over app/cloudinary_config.py *)

upload_media_file(header, content_type) ==
    /\ Running
    /\ UNCHANGED <<users, seq, issued, now, config, applications, pending,
                   animals, volunteers, settings>>
    /\ LET admin == AdminUser(header)
       IN  IF ~admin.ok
           THEN /\ last' \in Observe(Refused("upload_media", header, admin))
                /\ UNCHANGED media
           ELSE IF content_type # "image/png"
           THEN /\ last' \in Observe(Served("upload_media", header, admin, 400,
                        "Invalid file type. Allowed: images (jpg, png, gif, webp) and videos (mp4, mov, avi)"))
                /\ UNCHANGED media
           ELSE \/ /\ last' \in Observe(Served("upload_media", header, admin, 500, "Upload failed"))
                   /\ UNCHANGED media
                \/ \E public_id \in MediaIds \ media :
                        /\ media' = media \cup {public_id}
                        /\ last' \in Observe(Served("upload_media", header, admin, 201, None))

(* What cloudinary.uploader.destroy can do for a public_id: answer "ok"    *)
(* for a file the host has, answer "not found" for one it does not have,   *)
(* or raise (network, credentials)                                         *)
DestroyResults(public_id) ==
    {IF public_id \in media THEN "ok" ELSE "not found", "raises"}

(* delete_media raises its own 404 inside the try block whose handler      *)
(* turns every exception into a 500; str() of an HTTPException is          *)
(* "<status>: <detail>"                                                    *)
delete_media_file(header, public_id) ==
    /\ Running
    /\ UNCHANGED <<users, seq, issued, now, config, applications, pending,
                   animals, volunteers, settings>>
    /\ LET admin == AdminUser(header)
       IN  IF ~admin.ok
           THEN /\ last' \in Observe(Refused("delete_media", header, admin))
                /\ UNCHANGED media
           ELSE \E result \in DestroyResults(public_id) :
                  LET Deleted(status, detail) ==
                        [Served("delete_media", header, admin, status, detail)
                            EXCEPT !.body = [public_id |-> public_id, result |-> result]]
                  IN  IF result = "raises"
                      THEN /\ last' \in Observe(Deleted(500, "Delete failed: connection error"))
                           /\ UNCHANGED media
                      ELSE IF result # "ok"
                      THEN /\ last' \in Observe(Deleted(500,
                                    "Delete failed: 404: Media not found or already deleted"))
                           /\ UNCHANGED media
                      ELSE /\ media' = Destroyed(public_id)
                           /\ last' \in Observe(Deleted(200, "Media deleted successfully"))

-----------------------------------------------------------------------------
(* Shelter settings: app/internal/admin.py over app/models/settings.py *)

post_shelter_logo(header, content_type) ==
    /\ Running
    /\ UNCHANGED <<users, seq, issued, now, config, applications, pending,
                   animals, volunteers>>
    /\ LET admin == AdminUser(header)
           old_logo == IF settings # <<>> THEN settings[1].logo_public_id ELSE None
           after_delete == IF old_logo # None THEN Destroyed(old_logo) ELSE media
       IN  IF ~admin.ok
           THEN /\ last' \in Observe(Refused("post_logo", header, admin))
                /\ UNCHANGED <<settings, media>>
           ELSE IF content_type # "image/png"
           THEN /\ last' \in Observe(Served("post_logo", header, admin, 400,
                        "Invalid file type. Allowed: jpg, png, gif, webp"))
                /\ UNCHANGED <<settings, media>>
           ELSE \/ /\ last' \in Observe(Served("post_logo", header, admin, 500, "Upload failed"))
                   /\ media' = after_delete
                   /\ UNCHANGED settings
                \/ \E public_id \in MediaIds \ after_delete :
                        /\ media' = after_delete \cup {public_id}
                        /\ settings' =
                                IF settings # <<>>
                                THEN <<[settings[1] EXCEPT !.logo_public_id = public_id]>>
                                ELSE <<[logo_public_id |-> public_id,
                                        shelter_name |-> DefaultShelterName]>>
                        /\ last' \in Observe(Served("post_logo", header, admin, 200, None))

update_shelter_settings(header, shelter_name) ==
    /\ Running
    /\ UNCHANGED <<users, seq, issued, now, config, applications, pending,
                   animals, volunteers, media>>
    /\ LET admin == AdminUser(header)
       IN  IF ~admin.ok
           THEN /\ last' \in Observe(Refused("update_settings", header, admin))
                /\ UNCHANGED settings
           ELSE IF settings = <<>>
           THEN /\ settings' = <<[logo_public_id |-> None,
                                  shelter_name |-> IF shelter_name = Unset
                                                   THEN DefaultShelterName
                                                   ELSE shelter_name]>>
                /\ last' \in Observe(Served("update_settings", header, admin, 200, "created"))
           ELSE IF shelter_name = Unset \/ settings[1].shelter_name = shelter_name
           THEN /\ last' \in Observe(Served("update_settings", header, admin, 200, "no changes"))
                /\ UNCHANGED settings
           ELSE /\ settings' = <<[settings[1] EXCEPT !.shelter_name = shelter_name]>>
                /\ last' \in Observe(Served("update_settings", header, admin, 200, "updated"))

-----------------------------------------------------------------------------
(* The admin-gated handlers over a seeded account table: an admin and a    *)
(* regular user, each holding a token from login.                          *)

SeededAccounts ==
    (1 :> [email |-> "ana@paw.org", name |-> "Ana",
           password |-> get_password_hash("hunter22"), isAdmin |-> TRUE])
    @@ (2 :> [email |-> "bob@paw.org", name |-> "Ana",
              password |-> get_password_hash("hunter22"), isAdmin |-> FALSE])

SeededTokens ==
    {jwt_encode([sub |-> SeededAccounts[i].email, user_id |-> i,
                 isAdmin |-> SeededAccounts[i].isAdmin,
                 name |-> SeededAccounts[i].name, exp |-> Lifetime],
                SECRET_KEY) : i \in DOMAIN SeededAccounts}

InitCrud ==
    /\ users = SeededAccounts
    /\ seq = [NoRows EXCEPT !.pawuser = 2]
    /\ issued = SeededTokens
    /\ now = 0
    /\ ACCESS_TOKEN_EXPIRE_MINUTES = Lifetime
    /\ process = Started(Deployment)
    /\ pending = NoRequest
    /\ applications = <<>>
    /\ animals = <<>>
    /\ volunteers = <<>>
    /\ settings = <<>>
    /\ media = {}
    /\ last = Idle

NextCrud ==
    \/ \E h \in Headers, a \in AnimalBodies : create_animal(h, a)
    \/ \E h \in Headers, i \in AnimalIds, a \in AnimalBodies : update_animal(h, i, a)
    \/ \E h \in Headers, i \in AnimalIds : delete_animal(h, i)
    \/ \E v \in VolunteerBodies : create_volunteer(v)
    \/ \E h \in Headers, i \in VolunteerIds, v \in VolunteerBodies : update_volunteer(h, i, v)
    \/ \E h \in Headers, i \in VolunteerIds : delete_volunteer(h, i)
    \/ \E h \in Headers, c \in ContentTypes : upload_media_file(h, c)
    \/ \E h \in Headers, m \in MediaIds : delete_media_file(h, m)
    \/ \E h \in Headers, c \in ContentTypes : post_shelter_logo(h, c)
    \/ \E h \in Headers, n \in {Unset, "Happy Paws"} : update_shelter_settings(h, n)
    \/ \E h \in Headers, u \in UserIds : promote_user_to_admin(h, u)
    \/ \E h \in Headers, u \in UserIds : demote_admin_to_user(h, u)
    \/ \E h \in Headers, u \in UserIds : delete_user(h, u)

SpecCrud == InitCrud /\ [][NextCrud]_vars

-----------------------------------------------------------------------------
(* app/routers/adopt.py *)

ApplicationIds == {1, 2}

(* the animalId of a body may name another animal than the path does *)
ApplicationBodies ==
    [id : {NoId, 1}, animalId : AnimalIds \cup {2},
     applicantName : {"Ada", Blank}]

ApplicationRow(application) ==
    [animalId |-> application.animalId,
     applicantName |-> application.applicantName]

(* A submission that stores the application and leaves the animal as it was *)
submit_adoption_application_keep_status(animal_id, application) ==
    /\ Running
    /\ UNCHANGED <<users, issued, now, config, pending,
                   volunteers, settings, media>>
    /\ LET new_id == IF application.id = NoId
                     THEN seq.adoptionapplication + 1 ELSE application.id
           Adopt(status, detail) ==
                On(animal_id, [Served("submit_adoption", NoHeader, Public, status, detail)
                                    EXCEPT !.body = application])
       IN  IF animal_id \notin DOMAIN animals
           THEN /\ last' \in Observe(Adopt(404, "Animal not found"))
                /\ UNCHANGED <<animals, applications, seq>>
           ELSE IF animals[animal_id].availableForAdoption \in {"pending", "adopted"}
           THEN /\ last' \in Observe(Adopt(409, "Animal is already in adoption process"))
                /\ UNCHANGED <<animals, applications, seq>>
           ELSE IF application.applicantName = Blank
           THEN /\ last' \in Observe(Adopt(400, "applicantName cannot be empty"))
                /\ UNCHANGED <<animals, applications, seq>>
           ELSE /\ new_id \in ApplicationIds
                /\ seq' = IF application.id = NoId
                          THEN [seq EXCEPT !.adoptionapplication = @ + 1] ELSE seq
                /\ IF \/ new_id \in DOMAIN applications
                      \/ application.animalId \notin DOMAIN animals
                   THEN /\ last' \in Observe(Adopt(500, "Internal Server Error"))
                        /\ UNCHANGED <<animals, applications>>
                   ELSE /\ last' \in Observe(Adopt(201, None))
                        /\ animals' = animals
                        /\ applications' = applications @@
                                 (new_id :> ApplicationRow(application))

(* The INSERT is checked by the primary key and by the foreign key of      *)
(* animalId (the tables need PostgreSQL: Volunteer has ARRAY columns); a   *)
(* refused insert rolls the animal back too.                               *)
submit_adoption_application(animal_id, application) ==
    /\ Running
    /\ UNCHANGED <<users, issued, now, config, pending,
                   volunteers, settings, media>>
    /\ LET new_id == IF application.id = NoId
                     THEN seq.adoptionapplication + 1 ELSE application.id
           Adopt(status, detail) ==
                On(animal_id, [Served("submit_adoption", NoHeader, Public, status, detail)
                                    EXCEPT !.body = application])
       IN  IF animal_id \notin DOMAIN animals
           THEN /\ last' \in Observe(Adopt(404, "Animal not found"))
                /\ UNCHANGED <<animals, applications, seq>>
           ELSE IF animals[animal_id].availableForAdoption \in {"pending", "adopted"}
           THEN /\ last' \in Observe(Adopt(409, "Animal is already in adoption process"))
                /\ UNCHANGED <<animals, applications, seq>>
           ELSE IF application.applicantName = Blank
           THEN /\ last' \in Observe(Adopt(400, "applicantName cannot be empty"))
                /\ UNCHANGED <<animals, applications, seq>>
           ELSE /\ new_id \in ApplicationIds
                /\ seq' = IF application.id = NoId
                          THEN [seq EXCEPT !.adoptionapplication = @ + 1] ELSE seq
                /\ IF \/ new_id \in DOMAIN applications
                      \/ application.animalId \notin DOMAIN animals
                   THEN /\ last' \in Observe(Adopt(500, "Internal Server Error"))
                        /\ UNCHANGED <<animals, applications>>
                   ELSE /\ last' \in Observe(Adopt(201, None))
                        /\ animals' = [animals EXCEPT ![animal_id].availableForAdoption = "pending"]
                        /\ applications' = applications @@
                                 (new_id :> ApplicationRow(application))

NextAdopt ==
    \/ \E h \in Headers, a \in AnimalBodies : create_animal(h, a)
    \/ \E h \in Headers, i \in AnimalIds, a \in AnimalBodies : update_animal(h, i, a)
    \/ \E h \in Headers, i \in AnimalIds : delete_animal(h, i)
    \/ \E i \in AnimalIds, a \in ApplicationBodies : submit_adoption_application(i, a)

SpecAdopt == InitCrud /\ [][NextAdopt]_vars

(* the animal routes together with the routes that change who is an admin *)
NextAnimals ==
    \/ NextAdopt
    \/ \E h \in Headers, u \in UserIds : promote_user_to_admin(h, u)
    \/ \E h \in Headers, u \in UserIds : demote_admin_to_user(h, u)

SpecAnimals == InitCrud /\ [][NextAnimals]_vars

(* a shelter with two animals listed *)
SeededAnimals ==
    (1 :> [name |-> "Rex", availableForAdoption |-> "available"])
    @@ (2 :> [name |-> "Rex", availableForAdoption |-> "available"])

InitShelter ==
    /\ users = SeededAccounts
    /\ seq = [NoRows EXCEPT !.pawuser = 2, !.animal = 2]
    /\ issued = SeededTokens
    /\ now = 0
    /\ ACCESS_TOKEN_EXPIRE_MINUTES = Lifetime
    /\ process = Started(Deployment)
    /\ pending = NoRequest
    /\ applications = <<>>
    /\ animals = SeededAnimals
    /\ volunteers = <<>>
    /\ settings = <<>>
    /\ media = {}
    /\ last = Idle

NextShelter ==
    \/ \E h \in Headers, i \in AnimalIds, a \in AnimalBodies : update_animal(h, i, a)
    \/ \E i \in DOMAIN SeededAnimals, a \in ApplicationBodies :
            submit_adoption_application(i, a)

SpecShelter == InitShelter /\ [][NextShelter]_vars

-----------------------------------------------------------------------------
(* Two workers on the volunteer table.  The table has a unique index on    *)
(* email and none on phone.                                                *)

RaceVolunteerIds == {1, 2}

RaceVolunteerBodies ==
    [id : {NoId}, name : {"Vic"},
     email : {"vic@paw.org", "val@paw.org"}, phone : {"5550100", "5550199"},
     privacyAgreement : {TRUE}]

(* the administrator's header *)
RaceHeaders == {Bearer(t) : t \in {u \in issued : u.payload.isAdmin}}

(* create_volunteer up to the validation loop: both SELECTs have run *)
create_volunteer_check(volunteer) ==
    /\ Running
    /\ pending = NoRequest
    /\ UNCHANGED <<users, seq, issued, now, config, applications,
                   animals, volunteers, settings, media>>
    /\ IF existing_volunteer_email(volunteer.email)
       THEN /\ last' \in Observe(Served("create_volunteer", NoHeader, Public, 409, "Email already registered"))
            /\ UNCHANGED pending
       ELSE IF existing_voluneer_phone(volunteer.phone)
       THEN /\ last' \in Observe(Served("create_volunteer", NoHeader, Public, 409, "Phone number already registered"))
            /\ UNCHANGED pending
       ELSE IF volunteer.name = Blank
       THEN /\ last' \in Observe(Served("create_volunteer", NoHeader, Public, 400, "name cannot be empty"))
            /\ UNCHANGED pending
       ELSE IF ~volunteer.privacyAgreement
       THEN /\ last' \in Observe(Served("create_volunteer", NoHeader, Public, 400, "You must agree to the privacy policy"))
            /\ UNCHANGED pending
       ELSE /\ pending' = [NoRequest EXCEPT !.op = "create_volunteer",
                                            !.body = volunteer]
            /\ UNCHANGED last

(* session.add, session.commit: the INSERT, checked by the primary key and *)
(* by the unique index on volunteer.email                                  *)
create_volunteer_commit ==
    /\ Running
    /\ pending.op = "create_volunteer"
    /\ pending' = NoRequest
    /\ UNCHANGED <<users, issued, now, config, applications,
                   animals, settings, media>>
    /\ LET volunteer == pending.body
           new_id == IF volunteer.id = NoId THEN seq.volunteer + 1 ELSE volunteer.id
       IN  /\ new_id \in RaceVolunteerIds
           /\ seq' = IF volunteer.id = NoId THEN [seq EXCEPT !.volunteer = @ + 1] ELSE seq
           /\ IF new_id \in DOMAIN volunteers \/ existing_volunteer_email(volunteer.email)
              THEN /\ last' \in Observe(Served("create_volunteer", NoHeader, Public, 500, "Internal Server Error"))
                   /\ UNCHANGED volunteers
              ELSE /\ last' \in Observe(Served("create_volunteer", NoHeader, Public, 201, None))
                   /\ volunteers' = volunteers @@ (new_id :> VolunteerRow(volunteer))

(* update_volunteer up to the end of the loop: the row and both SELECTs    *)
(* have been read, the changed attributes are set on the loaded object     *)
update_volunteer_check(header, volunteer_id, updated_volunteer) ==
    /\ Running
    /\ pending = NoRequest
    /\ UNCHANGED <<users, seq, issued, now, config, applications,
                   animals, volunteers, settings, media>>
    /\ LET admin == AdminUser(header)
       IN  IF ~admin.ok
           THEN /\ last' \in Observe(Refused("update_volunteer", header, admin))
                /\ UNCHANGED pending
           ELSE IF volunteer_id \notin DOMAIN volunteers
           THEN /\ last' \in Observe(Served("update_volunteer", header, admin, 404, "Volunteer not found"))
                /\ UNCHANGED pending
           ELSE IF /\ volunteers[volunteer_id].email # updated_volunteer.email
                   /\ existing_volunteer_email(updated_volunteer.email)
           THEN /\ last' \in Observe(Served("update_volunteer", header, admin, 409, "Email already registered"))
                /\ UNCHANGED pending
           ELSE IF /\ volunteers[volunteer_id].phone # updated_volunteer.phone
                   /\ existing_voluneer_phone(updated_volunteer.phone)
           THEN /\ last' \in Observe(Served("update_volunteer", header, admin, 409, "Phone number already registered"))
                /\ UNCHANGED pending
           ELSE IF updated_volunteer.name = Blank
           THEN /\ last' \in Observe(Served("update_volunteer", header, admin, 400, "name cannot be empty"))
                /\ UNCHANGED pending
           ELSE IF volunteers[volunteer_id] = VolunteerRow(updated_volunteer)
           THEN /\ last' \in Observe(Served("update_volunteer", header, admin, 200, "No changes detected"))
                /\ UNCHANGED pending
           ELSE /\ pending' = [op |-> "update_volunteer", header |-> header,
                               target |-> volunteer_id,
                               body |-> [volunteer |-> volunteers[volunteer_id],
                                         updated_volunteer |-> VolunteerRow(updated_volunteer)]]
                /\ UNCHANGED last

(* session.add, session.commit: an UPDATE of the attributes that were set, *)
(* by primary key, checked by the unique index on volunteer.email          *)
update_volunteer_commit ==
    /\ Running
    /\ pending.op = "update_volunteer"
    /\ pending' = NoRequest
    /\ UNCHANGED <<users, seq, issued, now, config, applications,
                   animals, settings, media>>
    /\ LET header == pending.header
           admin == AdminUser(header)
           volunteer_id == pending.target
           volunteer == pending.body.volunteer
           updated_volunteer == pending.body.updated_volunteer
           row == [field \in DOMAIN volunteer |->
                        IF volunteer[field] # updated_volunteer[field]
                        THEN updated_volunteer[field]
                        ELSE volunteers[volunteer_id][field]]
       IN  IF \/ volunteer_id \notin DOMAIN volunteers
              \/ \E i \in DOMAIN volunteers \ {volunteer_id} :
                    volunteers[i].email = row.email
           THEN /\ last' \in Observe(Served("update_volunteer", header, admin, 500, "Internal Server Error"))
                /\ UNCHANGED volunteers
           ELSE /\ volunteers' = [volunteers EXCEPT ![volunteer_id] = row]
                /\ last' \in Observe(Served("update_volunteer", header, admin, 200, None))

NextVolunteerRace ==
    \/ \E v \in RaceVolunteerBodies : create_volunteer(v)
    \/ \E h \in RaceHeaders, i \in RaceVolunteerIds, v \in RaceVolunteerBodies :
            update_volunteer(h, i, v)
    \/ \E v \in RaceVolunteerBodies : create_volunteer_check(v)
    \/ create_volunteer_commit
    \/ \E h \in RaceHeaders, i \in RaceVolunteerIds, v \in RaceVolunteerBodies :
            update_volunteer_check(h, i, v)
    \/ update_volunteer_commit

SpecVolunteerRace == InitCrud /\ [][NextVolunteerRace]_vars

-----------------------------------------------------------------------------
(* Two workers on the user table through the admin routes.  The second     *)
(* worker's handler holds the caller the gate resolved and the row it      *)
(* loaded until it commits; neither is read again.                         *)

(* promote_user_to_admin up to the assignment *)
promote_user_to_admin_check(header, user_id) ==
    /\ Running
    /\ pending = NoRequest
    /\ UNCHANGED <<users, seq, issued, now, config, applications,
                   animals, volunteers, settings, media>>
    /\ LET admin == AdminUser(header)
           user == UserObj(user_id)
       IN  IF ~admin.ok
           THEN /\ last' \in Observe(On(user_id, Refused("promote", header, admin)))
                /\ UNCHANGED pending
           ELSE IF user = NoUserObj
           THEN /\ last' \in Observe(On(user_id, Served("promote", header, admin, 404, "User not found")))
                /\ UNCHANGED pending
           ELSE IF user.isAdmin
           THEN /\ last' \in Observe(On(user_id, Served("promote", header, admin, 400, "User is already an admin")))
                /\ UNCHANGED pending
           ELSE /\ pending' = [op |-> "promote", header |-> header,
                               target |-> user_id, body |-> admin]
                /\ UNCHANGED last

(* session.commit: UPDATE pawuser SET isAdmin by primary key; a row that   *)
(* is gone makes the flush fail                                            *)
promote_user_to_admin_commit ==
    /\ Running
    /\ pending.op = "promote"
    /\ pending' = NoRequest
    /\ UNCHANGED <<seq, issued, now, config, applications,
                   animals, volunteers, settings, media>>
    /\ LET header == pending.header
           admin == pending.body
           user_id == pending.target
       IN  IF user_id \notin DOMAIN users
           THEN /\ last' \in Observe(On(user_id, Served("promote", header, admin, 500, "Internal Server Error")))
                /\ UNCHANGED users
           ELSE /\ users' = [users EXCEPT ![user_id].isAdmin = TRUE]
                /\ last' \in Observe(On(user_id, Served("promote", header, admin, 200, None)))

(* demote_admin_to_user up to the assignment *)
demote_admin_to_user_check(header, user_id) ==
    /\ Running
    /\ pending = NoRequest
    /\ UNCHANGED <<users, seq, issued, now, config, applications,
                   animals, volunteers, settings, media>>
    /\ LET admin == AdminUser(header)
           user == UserObj(user_id)
       IN  IF ~admin.ok
           THEN /\ last' \in Observe(On(user_id, Refused("demote", header, admin)))
                /\ UNCHANGED pending
           ELSE IF user = NoUserObj
           THEN /\ last' \in Observe(On(user_id, Served("demote", header, admin, 404, "User not found")))
                /\ UNCHANGED pending
           ELSE IF ~user.isAdmin
           THEN /\ last' \in Observe(On(user_id, Served("demote", header, admin, 400, "User is not an admin")))
                /\ UNCHANGED pending
           ELSE IF user.id = admin.user.id
           THEN /\ last' \in Observe(On(user_id, Served("demote", header, admin, 400, "Cannot demote yourself")))
                /\ UNCHANGED pending
           ELSE /\ pending' = [op |-> "demote", header |-> header,
                               target |-> user_id, body |-> admin]
                /\ UNCHANGED last

(* session.commit: UPDATE pawuser SET isAdmin by primary key *)
demote_admin_to_user_commit ==
    /\ Running
    /\ pending.op = "demote"
    /\ pending' = NoRequest
    /\ UNCHANGED <<seq, issued, now, config, applications,
                   animals, volunteers, settings, media>>
    /\ LET header == pending.header
           admin == pending.body
           user_id == pending.target
       IN  IF user_id \notin DOMAIN users
           THEN /\ last' \in Observe(On(user_id, Served("demote", header, admin, 500, "Internal Server Error")))
                /\ UNCHANGED users
           ELSE /\ users' = [users EXCEPT ![user_id].isAdmin = FALSE]
                /\ last' \in Observe(On(user_id, Served("demote", header, admin, 200, None)))

(* delete_user up to session.delete *)
delete_user_check(header, user_id) ==
    /\ Running
    /\ pending = NoRequest
    /\ UNCHANGED <<users, seq, issued, now, config, applications,
                   animals, volunteers, settings, media>>
    /\ LET admin == AdminUser(header)
           user == UserObj(user_id)
       IN  IF ~admin.ok
           THEN /\ last' \in Observe(On(user_id, Refused("delete_user", header, admin)))
                /\ UNCHANGED pending
           ELSE IF user = NoUserObj
           THEN /\ last' \in Observe(On(user_id, Served("delete_user", header, admin, 404, "User not found")))
                /\ UNCHANGED pending
           ELSE IF user.id = admin.user.id
           THEN /\ last' \in Observe(On(user_id, Served("delete_user", header, admin, 400, "Cannot delete yourself")))
                /\ UNCHANGED pending
           ELSE /\ pending' = [op |-> "delete_user", header |-> header,
                               target |-> user_id, body |-> admin]
                /\ UNCHANGED last

(* session.commit: DELETE FROM pawuser by primary key; a row that is gone  *)
(* leaves nothing to delete                                                *)
delete_user_commit ==
    /\ Running
    /\ pending.op = "delete_user"
    /\ pending' = NoRequest
    /\ UNCHANGED <<seq, issued, now, config, applications,
                   animals, volunteers, settings, media>>
    /\ LET header == pending.header
           admin == pending.body
           user_id == pending.target
       IN  IF user_id \notin DOMAIN users
           THEN /\ last' \in Observe(On(user_id, Served("delete_user", header, admin, 200, None)))
                /\ UNCHANGED users
           ELSE /\ users' = [i \in DOMAIN users \ {user_id} |-> users[i]]
                /\ last' \in Observe(On(user_id, Served("delete_user", header, admin, 200, None)))

NextAdminRace ==
    \/ \E h \in Headers, u \in UserIds : promote_user_to_admin(h, u)
    \/ \E h \in Headers, u \in UserIds : demote_admin_to_user(h, u)
    \/ \E h \in Headers, u \in UserIds : delete_user(h, u)
    \/ \E h \in Headers, u \in UserIds : promote_user_to_admin_check(h, u)
    \/ promote_user_to_admin_commit
    \/ \E h \in Headers, u \in UserIds : demote_admin_to_user_check(h, u)
    \/ demote_admin_to_user_commit
    \/ \E h \in Headers, u \in UserIds : delete_user_check(h, u)
    \/ delete_user_commit

SpecAdminRace == InitCrud /\ [][NextAdminRace]_vars

-----------------------------------------------------------------------------
(* Two workers on the adoption route.  The animal row is read without a    *)
(* lock and has no version column; the UPDATE of the second worker waits   *)
(* for the first commit and then overwrites the status.                    *)

(* submit_adoption_application up to the assignment of the status *)
submit_adoption_application_check(animal_id, application) ==
    /\ Running
    /\ pending = NoRequest
    /\ UNCHANGED <<users, seq, issued, now, config, applications,
                   animals, volunteers, settings, media>>
    /\ LET Adopt(status, detail) ==
                On(animal_id, [Served("submit_adoption", NoHeader, Public, status, detail)
                                    EXCEPT !.body = application])
       IN  IF animal_id \notin DOMAIN animals
           THEN /\ last' \in Observe(Adopt(404, "Animal not found"))
                /\ UNCHANGED pending
           ELSE IF animals[animal_id].availableForAdoption \in {"pending", "adopted"}
           THEN /\ last' \in Observe(Adopt(409, "Animal is already in adoption process"))
                /\ UNCHANGED pending
           ELSE IF application.applicantName = Blank
           THEN /\ last' \in Observe(Adopt(400, "applicantName cannot be empty"))
                /\ UNCHANGED pending
           ELSE /\ pending' = [NoRequest EXCEPT !.op = "submit_adoption",
                                                !.target = animal_id,
                                                !.body = application]
                /\ UNCHANGED last

(* session.commit: the UPDATE of the animal by primary key and the INSERT  *)
(* of the application, in one transaction                                  *)
submit_adoption_application_commit ==
    /\ Running
    /\ pending.op = "submit_adoption"
    /\ pending' = NoRequest
    /\ UNCHANGED <<users, issued, now, config, volunteers, settings, media>>
    /\ LET animal_id == pending.target
           application == pending.body
           new_id == IF application.id = NoId
                     THEN seq.adoptionapplication + 1 ELSE application.id
           Adopt(status, detail) ==
                On(animal_id, [Served("submit_adoption", NoHeader, Public, status, detail)
                                    EXCEPT !.body = application])
       IN  /\ new_id \in ApplicationIds
           /\ seq' = IF application.id = NoId
                     THEN [seq EXCEPT !.adoptionapplication = @ + 1] ELSE seq
           /\ IF \/ animal_id \notin DOMAIN animals
                 \/ new_id \in DOMAIN applications
                 \/ application.animalId \notin DOMAIN animals
              THEN /\ last' \in Observe(Adopt(500, "Internal Server Error"))
                   /\ UNCHANGED <<animals, applications>>
              ELSE /\ last' \in Observe(Adopt(201, None))
                   /\ animals' = [animals EXCEPT ![animal_id].availableForAdoption = "pending"]
                   /\ applications' = applications @@
                            (new_id :> ApplicationRow(application))

(* bodies that leave the primary key to the database *)
RaceApplicationBodies == {a \in ApplicationBodies : a.id = NoId}

NextAdoptRace ==
    \/ \E i \in DOMAIN SeededAnimals, a \in RaceApplicationBodies :
            submit_adoption_application(i, a)
    \/ \E i \in DOMAIN SeededAnimals, a \in RaceApplicationBodies :
            submit_adoption_application_check(i, a)
    \/ submit_adoption_application_commit

SpecAdoptRace == InitShelter /\ [][NextAdoptRace]_vars

-----------------------------------------------------------------------------
(* Vocabulary of the properties *)

AdminRoutes ==
    {"dashboard", "promote", "demote", "delete_user",
     "create_animal", "update_animal", "delete_animal",
     "update_volunteer", "delete_volunteer",
     "upload_media", "delete_media", "post_logo", "update_settings"}
Protected == AdminRoutes \cup {"me"}

(* the failures jwt.decode reports, and those of get_current_user *)
TokenErrors == {"DecodeError", "InvalidSignatureError", "ExpiredSignatureError"}
ResolveFailures == TokenErrors \cup {"missing_claims", "no_user"}

(* the token was made with the server's key over the payload it carries *)
SigOk(token) ==
    token.form = "jws" /\ token.sig = Sign(token.payload, SECRET_KEY)

Response(r) == <<r.status, r.detail, r.challenge>>

-----------------------------------------------------------------------------
(* C1: a protected request goes on to the user lookup only if it carries a *)
(* Bearer token whose signature verifies under SECRET_KEY and whose exp is *)
(* strictly after the current time; every other request is answered 401    *)
(* and no user is resolved.                                                *)
C1_AcceptedOnlyIfSignedAndUnexpired ==
    last.op \in Protected =>
        LET token == last.header.token
            valid == /\ last.header.scheme = "Bearer"
                     /\ SigOk(token)
                     /\ now < token.payload.exp
        IN  /\ last.consulted => valid
            /\ ~valid => (last.status = 401 /\ last.user = NoUserObj)

(* a token accepted in the last minute before its exp *)
C1_Witness ==
    /\ last.op \in Protected
    /\ last.status = 200
    /\ last.header.token \in issued
    /\ now + 1 = last.header.token.payload.exp

-----------------------------------------------------------------------------
(* C2: on an admin route, a request that authenticates is refused with 403 *)
(* exactly when the isAdmin stored for its user at the time of the request *)
(* is false, whatever the isAdmin claim of its token says.                 *)
C2_GateReadsStoredIsAdmin ==
    [][ (last'.op \in AdminRoutes /\ CurrentUser(last'.header).ok) =>
            LET user_id == last'.header.token.payload.user_id
            IN  (last'.status = 403) <=> ~users[user_id].isAdmin ]_vars

(* a token issued to an admin who has since lost the flag is refused *)
C2_Witness ==
    /\ last.op \in AdminRoutes
    /\ last.status = 403
    /\ last.header.token \in issued
    /\ last.header.token.payload.isAdmin

-----------------------------------------------------------------------------
(* C3: when a request is refused inside get_current_user, its response     *)
(* (status, detail, challenge) is the response of every other token that   *)
(* get_current_user refuses in that state, whatever the two causes are.    *)
C3_Uniform401 ==
    (last.op \in Protected /\ last.cause \in ResolveFailures) =>
        \A h \in Headers :
            (h.scheme = "Bearer" /\ ~get_current_user(h.token).ok) =>
                Response(get_current_user(h.token)) = Response(last)

(* a token naming a user without a row is refused while tokens that are    *)
(* unparsable, wrongly signed and without a claim are at hand              *)
C3_Witness ==
    /\ last.op \in Protected
    /\ last.cause = "no_user"
    /\ {"DecodeError", "InvalidSignatureError", "missing_claims"} \subseteq
            {get_current_user(h.token).cause : h \in Headers}

-----------------------------------------------------------------------------
(* C4: every call of create_access_token with an expires_delta returns a   *)
(* token whose exp is the time of the call plus that delta, and plus 15    *)
(* minutes without one; a token made with a delta of zero does not pass    *)
(* jwt.decode at the time of the call (nor later: the clock only moves on). *)
C4_ExpIsIssuancePlusTtl ==
    (last.op \in {"create_access_token", "login"} /\ last.status = 200) =>
        LET c == last.call
        IN  /\ c.expires_delta.given =>
                    last.token.payload.exp = c.at + c.expires_delta.minutes
            /\ ~c.expires_delta.given =>
                    last.token.payload.exp = c.at + DefaultExpireMinutes
            /\ c.expires_delta = Delta(0) => ~jwt_decode(last.token, SECRET_KEY).ok

-----------------------------------------------------------------------------
(* C5: once the user a token was issued to has no row (delete_user removed *)
(* it), the token is answered 401 on /users/me and on admin routes, now    *)
(* and after every further step.                                           *)
C5_DeletedUsersTokenStaysRefused ==
    [][ \A t \in issued :
            t.payload.user_id \notin DOMAIN users =>
                /\ CurrentUser(Bearer(t)).status = 401
                /\ AdminUser(Bearer(t)).status = 401
                /\ (CurrentUser(Bearer(t)).status = 401)'
                /\ (AdminUser(Bearer(t)).status = 401)' ]_vars

-----------------------------------------------------------------------------
(* C6: in every reachable state, every token issued so far passes          *)
(* jwt.decode exactly when the current time is before its exp.             *)
C6_IssuedTokenVerifiesUntilExp ==
    \A t \in issued :
        jwt_decode(t, SECRET_KEY).ok <=> now < t.payload.exp

(* a token that still verifies although its user was demoted, promoted or  *)
(* deleted after it was issued                                             *)
C6_Witness ==
    \E t \in issued :
        /\ jwt_decode(t, SECRET_KEY).ok
        /\ UserObj(t.payload.user_id).isAdmin # t.payload.isAdmin

-----------------------------------------------------------------------------
(* C7: on an admin route a request that authenticates is handed exactly    *)
(* the object get_current_user resolved when that user is an admin, and is *)
(* refused with 403 otherwise; on /users/me every request that             *)
(* authenticates is served with that object, admin or not.                 *)
C7_GateReturnsResolvedUserOr403 ==
    [][ LET resolved == CurrentUser(last'.header)
        IN  /\ (last'.op \in AdminRoutes /\ resolved.ok) =>
                    IF resolved.user.isAdmin
                    THEN last'.status # 403 /\ last'.user = resolved.user
                    ELSE last'.status = 403 /\ last'.user = NoUserObj
            /\ (last'.op = "me" /\ resolved.ok) =>
                    last'.status = 200 /\ last'.user = resolved.user ]_vars

(* a non-admin with a token of their own is refused on an admin route *)
C7_Witness ==
    /\ last.op \in AdminRoutes
    /\ last.status = 403
    /\ last.header.token \in issued
    /\ ~last.header.token.payload.isAdmin
    /\ ~UserObj(last.header.token.payload.user_id).isAdmin

-----------------------------------------------------------------------------
(* C8: a request refused by a dependency (401 from authentication, 403     *)
(* from the admin gate) leaves every table, every id sequence and the      *)
(* image host as they were.                                                *)
C8_RefusedRequestWritesNothing ==
    [][ (last'.op \in Protected /\ last'.status \in {401, 403}) =>
            UNCHANGED stores ]_vars

(* a regular user's own token refused on an admin route while every store  *)
(* holds data                                                              *)
C8_Witness ==
    /\ last.op \in AdminRoutes
    /\ last.status = 403
    /\ animals # <<>>
    /\ volunteers # <<>>
    /\ settings # <<>>
    /\ media # {}

-----------------------------------------------------------------------------
(* C9: a request that ends in the dependencies (refused by them, or served *)
(* by a handler that only reads) leaves the user table and its id sequence *)
(* unchanged, and a request whose token fails jwt.decode or lacks a claim  *)
(* is refused before the user table is queried.                            *)
C9_DependenciesNeverWriteUsers ==
    [][ /\ (\/ last'.op \in {"me", "dashboard"}
            \/ (last'.op \in Protected /\ last'.status \in {401, 403}))
                => UNCHANGED <<users, seq>>
        /\ (last'.op \in Protected
                /\ last'.cause \in TokenErrors \cup {"missing_claims"})
                => ~last'.consulted ]_vars

(* a token with an edited payload is refused without a query *)
C9_Witness ==
    /\ last.op \in Protected
    /\ last.cause = "InvalidSignatureError"
    /\ ~last.consulted
    /\ users # <<>>

-----------------------------------------------------------------------------
(* C10: a protected request without a Bearer header is answered like one   *)
(* whose token fails verification: status 401 with the Bearer challenge,   *)
(* and nothing is written.                                                 *)
C10_MissingHeaderIs401 ==
    [][ (last'.op \in Protected /\ last'.header.scheme # "Bearer") =>
            /\ last'.status = 401
            /\ last'.status = CurrentUser(Bearer(Garbage)).status
            /\ last'.challenge = CurrentUser(Bearer(Garbage)).challenge
            /\ last'.user = NoUserObj
            /\ UNCHANGED <<users, seq, issued, animals, volunteers,
                           settings, media>> ]_vars

(* an admin route called with a Basic header while a user exists *)
C10_Witness ==
    /\ last.op \in AdminRoutes
    /\ last.header = Basic
    /\ last.status = 401
    /\ \E i \in DOMAIN users : users[i].isAdmin

-----------------------------------------------------------------------------
(* C11: the process serves requests only if the secret key, the algorithm  *)
(* and the token lifetime were all present in its environment.             *)
C11_ServesOnlyWithFullConfiguration ==
    (process.phase = "serving" \/ last # Idle) =>
        \A name \in ConfigNames : os_getenv(name) # None

-----------------------------------------------------------------------------
(* C12: a successful register(e, p) stores a hash of p that is not p; from *)
(* then on login(e, p) succeeds with a token carrying that user's id, and  *)
(* login(e, q) with any other password q is answered 401 and issues no     *)
(* token.                                                                  *)
C12_RegisterThenLogin ==
    [][ LET b == last'.body
        IN  /\ (last'.op = "register" /\ last'.status = 201) =>
                \E i \in DOMAIN users' \ DOMAIN users :
                    /\ users'[i].email = b.email
                    /\ users'[i].password.alg = "argon2"
                    /\ verify_password(b.password, users'[i].password)
                    /\ \A q \in (Passwords \cup WrongPasswords) \ {b.password} :
                            ~verify_password(q, users'[i].password)
            /\ (last'.op = "login" /\ UserByEmail(b.email) # NoUserObj
                    /\ b.password # Blank) =>
                IF UserByEmail(b.email).password = get_password_hash(b.password)
                THEN /\ last'.status = 200
                     /\ last'.token.payload.user_id = UserByEmail(b.email).id
                     /\ last'.token \in issued'
                ELSE /\ last'.status = 401
                     /\ issued' = issued ]_vars

(* a login with a password the account was not registered with *)
C12_Witness ==
    /\ last.op = "login"
    /\ last.status = 401
    /\ last.body.password \in WrongPasswords
    /\ UserByEmail(last.body.email) # NoUserObj

-----------------------------------------------------------------------------
(* C13: a login for an email without an account and a login with a wrong   *)
(* password get the same response (401, "Invalid email or password"),      *)
(* issue no token and write nothing; a successful login returns the token  *)
(* with the user's id, email, name and isAdmin and without the password    *)
(* hash.                                                                   *)
C13_LoginFailuresAlike ==
    [][ LET b == last'.body
            db_user == UserByEmail(b.email)
        IN  (last'.op = "login" /\ b.password # Blank) =>
                IF db_user = NoUserObj
                        \/ db_user.password # get_password_hash(b.password)
                THEN /\ Response(last') = <<401, "Invalid email or password", None>>
                     /\ last'.token = Garbage
                     /\ last'.user = NoUserObj
                     /\ issued' = issued
                     /\ UNCHANGED stores
                ELSE /\ last'.status = 200
                     /\ last'.token \in issued'
                     /\ last'.user = [db_user EXCEPT !.password = NoHash]
                     /\ UNCHANGED stores ]_vars

(* a login for an email nobody registered, while another account exists *)
C13_Witness ==
    /\ last.op = "login"
    /\ last.status = 401
    /\ last.body.password \in Passwords
    /\ UserByEmail(last.body.email) = NoUserObj
    /\ users # <<>>

-----------------------------------------------------------------------------
-----------------------------------------------------------------------------
(* C15: for a caller the admin gate lets through, demote_admin_to_user     *)
(* answers 400 for the caller's own id, 400 for a user who is no admin and *)
(* 404 for an id without a row; in all three cases no user row changes and *)
(* the caller is still an admin.                                           *)
C15_NoSelfDemotion ==
    [][ (last'.op = "demote" /\ AdminUser(last'.header).ok) =>
            LET caller == AdminUser(last'.header).user
                t == last'.target
            IN  /\ t = caller.id =>
                        /\ last'.status = 400
                        /\ users' = users
                        /\ users'[caller.id].isAdmin
                /\ (t \in DOMAIN users /\ ~users[t].isAdmin) =>
                        last'.status = 400 /\ users' = users
                /\ t \notin DOMAIN users =>
                        last'.status = 404 /\ users' = users ]_vars

(* an admin names themself while another admin exists *)
C15_Witness ==
    /\ last.op = "demote"
    /\ last.status = 400
    /\ last.target = last.user.id
    /\ \E i \in DOMAIN users : i # last.target /\ users[i].isAdmin

-----------------------------------------------------------------------------
(* C16: for a caller the admin gate lets through, delete_user answers 400  *)
(* for the caller's own id and 404 for an id without a row, changing       *)
(* nothing; otherwise it removes the row of the target and leaves every    *)
(* other row as it was.                                                    *)
C16_DeleteRemovesExactlyTheTarget ==
    [][ (last'.op = "delete_user" /\ AdminUser(last'.header).ok) =>
            LET caller == AdminUser(last'.header).user
                t == last'.target
            IN  IF t = caller.id
                THEN last'.status = 400 /\ users' = users /\ t \in DOMAIN users'
                ELSE IF t \notin DOMAIN users
                THEN last'.status = 404 /\ users' = users
                ELSE /\ last'.status = 200
                     /\ DOMAIN users' = DOMAIN users \ {t}
                     /\ \A i \in DOMAIN users' : users'[i] = users[i] ]_vars

(* an admin deletes another admin *)
C16_Witness ==
    /\ last.op = "delete_user"
    /\ last.status = 200
    /\ last.target \notin DOMAIN users
    /\ last.user.id \in DOMAIN users
    /\ \E t \in issued : t.payload.user_id = last.target /\ t.payload.isAdmin

-----------------------------------------------------------------------------
(* C17: for a caller the admin gate lets through, promote_user_to_admin    *)
(* answers 404 for an id without a row and 400 for a user who is already   *)
(* an admin, changing nothing; otherwise only the isAdmin of the target    *)
(* changes, to true.                                                       *)
C17_PromoteSetsOnlyTheFlag ==
    [][ (last'.op = "promote" /\ AdminUser(last'.header).ok) =>
            LET t == last'.target
            IN  IF t \notin DOMAIN users
                THEN last'.status = 404 /\ users' = users
                ELSE IF users[t].isAdmin
                THEN last'.status = 400 /\ users' = users
                ELSE /\ last'.status = 200
                     /\ users' = [users EXCEPT ![t].isAdmin = TRUE]
                     /\ UNCHANGED <<seq, issued>> ]_vars

(* a promotion of a user who is already an admin, by another admin *)
C17_Witness ==
    /\ last.op = "promote"
    /\ last.status = 400
    /\ last.target # last.user.id
    /\ last.target \in DOMAIN users

-----------------------------------------------------------------------------
(* C18: submit_adoption_application answers 404 when the animal has no row *)
(* and 409 when its status is pending or adopted, and then stores no       *)
(* application and changes no animal; a 201 stores one new application     *)
(* with the fields of the body and sets the status of that animal, and of  *)
(* no other, to pending, which is a status the next submission for the     *)
(* animal is refused for.                                                  *)
C18_SubmissionTakesTheAnimal ==
    [][ last'.op = "submit_adoption" =>
            LET t == last'.target
            IN  /\ t \notin DOMAIN animals =>
                        /\ last'.status = 404
                        /\ UNCHANGED <<animals, applications>>
                /\ (t \in DOMAIN animals
                        /\ animals[t].availableForAdoption \in {"pending", "adopted"}) =>
                        /\ last'.status = 409
                        /\ UNCHANGED <<animals, applications>>
                /\ last'.status = 201 =>
                        /\ animals' = [animals EXCEPT ![t].availableForAdoption = "pending"]
                        /\ \E id \in DOMAIN applications' \ DOMAIN applications :
                              applications' = applications @@
                                    (id :> ApplicationRow(last'.body)) ]_vars

(* the second submission for an animal that has a stored application *)
C18_Witness ==
    /\ last.op = "submit_adoption"
    /\ last.status = 409
    /\ last.target \in DOMAIN animals
    /\ animals[last.target].availableForAdoption = "pending"
    /\ \E id \in DOMAIN applications : applications[id].animalId = last.target

-----------------------------------------------------------------------------
(* C19: whatever create_volunteer and update_volunteer requests have run,  *)
(* and however two of them were interleaved, no two stored volunteers      *)
(* share an email and no two share a phone number.                         *)
C19_VolunteerContactsUnique ==
    \A i, j \in DOMAIN volunteers :
        \/ i = j
        \/ /\ volunteers[i].email # volunteers[j].email
           /\ volunteers[i].phone # volunteers[j].phone

-----------------------------------------------------------------------------
(* C20: every stored volunteer has accepted the privacy agreement,         *)
(* whatever create_volunteer, update_volunteer and delete_volunteer        *)
(* requests have run.                                                      *)
C20_PrivacyAgreementAccepted ==
    \A i \in DOMAIN volunteers : volunteers[i].privacyAgreement

-----------------------------------------------------------------------------
(* C21: a request that creates or deletes an animal, or changes a field of *)
(* an animal other than its adoption status, comes from a caller whose     *)
(* stored row is an admin when the request is served; a request of any     *)
(* other caller changes at most the adoption status of the animal it names *)
(* and only as an adoption application.                                    *)
C21_AnimalsChangedByAdmins ==
    [][ last'.op # "idle" =>
            LET admin == AdminUser(last'.header)
                beyond_status ==
                    \/ DOMAIN animals' # DOMAIN animals
                    \/ \E i \in DOMAIN animals : animals'[i].name # animals[i].name
            IN  /\ beyond_status =>
                        /\ admin.ok
                        /\ admin.user.id \in DOMAIN users
                        /\ users[admin.user.id].isAdmin
                /\ (~admin.ok /\ animals' # animals) =>
                        /\ last'.op = "submit_adoption"
                        /\ animals' = [animals EXCEPT
                                ![last'.target].availableForAdoption = "pending"] ]_vars

(* an update by a user who was promoted after the token was issued *)
C21_Witness ==
    /\ last.op = "update_animal"
    /\ last.status = 200
    /\ ~last.header.token.payload.isAdmin
    /\ users[last.user.id].isAdmin

-----------------------------------------------------------------------------
(* C22: when an admin deletes media by a public_id the image host does not *)
(* know, the answer is 404 'Media not found', and it differs in status     *)
(* from the 500 given when the call to the host itself fails.              *)
C22_UnknownMediaIsNotFound ==
    [][ (last'.op = "delete_media" /\ AdminUser(last'.header).ok) =>
            /\ last'.body.result = "not found" =>
                    /\ last'.body.public_id \notin media
                    /\ last'.status = 404
                    /\ last'.detail = "Media not found or already deleted"
            /\ last'.body.result = "raises" => last'.status = 500 ]_vars

-----------------------------------------------------------------------------
(* C23: a user row comes to have isAdmin set, by being created with it or  *)
(* by a change of the flag, only in a promote request for that user whose  *)
(* caller is stored as an admin; register never stores an admin.           *)
C23_AdminsOnlyByPromotion ==
    [][ last'.op # "idle" =>
            \A i \in DOMAIN users' :
                (users'[i].isAdmin /\ (i \in DOMAIN users => ~users[i].isAdmin)) =>
                    /\ last'.op = "promote"
                    /\ last'.target = i
                    /\ AdminUser(last'.header).ok ]_vars

-----------------------------------------------------------------------------
(* C24: starting with an admin, whatever promote, demote and delete_user   *)
(* requests have run and however two of them were interleaved between      *)
(* their reads and their commit, some stored user is an admin.             *)
C24_AnAdminRemains ==
    \E i \in DOMAIN users : users[i].isAdmin

-----------------------------------------------------------------------------
(* C25: an application stored by submit_adoption_application refers to the *)
(* animal of the request: the animalId of the new row is the animal_id of  *)
(* the path, the animal that was checked and set to pending.               *)
C25_ApplicationNamesItsAnimal ==
    [][ (last'.op = "submit_adoption" /\ last'.status = 201) =>
            \A id \in DOMAIN applications' \ DOMAIN applications :
                /\ applications'[id].animalId = last'.target
                /\ animals'[applications'[id].animalId].availableForAdoption = "pending" ]_vars

-----------------------------------------------------------------------------
(* C26: of the submissions that read an animal as available, one stores an *)
(* application: a submission that comes to its commit after another one    *)
(* has taken the animal stores nothing and is answered 409.                *)
C26_OneApplicationPerAnimal ==
    [][ (/\ pending.op = "submit_adoption"
         /\ pending' = NoRequest
         /\ pending.target \in DOMAIN animals
         /\ animals[pending.target].availableForAdoption \in {"pending", "adopted"}) =>
            /\ applications' = applications
            /\ last'.status \in {Idle.status, 409} ]_vars

====
